---- MODULE Spec2Model ----
(***************************************************************************)
(* Model of lb5.cpp: a graphic editor with a composite shape tree          *)
(* (Circle, Rectangle, Group), an AddCommand and the EditorFacade with its *)
(* undo and redo stacks.                                                   *)
(*                                                                         *)
(* Shapes live in a heap indexed by object identity (a shared_ptr is an    *)
(* index into the heap, NullPtr is nullptr).  Arithmetic is the program's  *)
(* 32-bit int: an operation whose exact result leaves [IntMin, IntMax] is  *)
(* undefined behaviour, and a call that performs one can return anything.  *)
(***************************************************************************)
EXTENDS Integers, Sequences, FiniteSets, TLC

(***************************************************************************)
(* Bounds of the model.                                                    *)
(***************************************************************************)
MaxObj == 10
MaxCmd == 4
HistLen == 4
MaxShapes == 6
MaxCoord == 1
GridMax == 3
MaxKids == 3

(***************************************************************************)
(* int                                                                     *)
(***************************************************************************)
IntMax == 2147483647
IntMin == (-IntMax) - 1

NullPtr == 0
ObjIds == 1..MaxObj
CmdIds == 1..MaxCmd

Abs(a) == IF a < 0 THEN -a ELSE a

\* a + b leaves the range of int
AddOverflows(a, b) ==
    \/ b > 0 /\ a > IntMax - b
    \/ b < 0 /\ a < IntMin - b

\* a - b leaves the range of int
SubOverflows(a, b) ==
    \/ b < 0 /\ a > IntMax + b
    \/ b > 0 /\ a < IntMin + b

\* a * a leaves the range of int (the program only multiplies a value by itself)
SquareOverflows(a) ==
    \/ a = IntMin
    \/ a # 0 /\ Abs(a) > IntMax \div Abs(a)

(***************************************************************************)
(* Shape objects.  Every object carries the fields of all three classes;   *)
(* the fields a class does not have stay 0 / <<>>.                         *)
(***************************************************************************)
Free == [kind |-> "free", x |-> 0, y |-> 0, radius |-> 0,
         width |-> 0, height |-> 0, children |-> <<>>]

Circle(cx, cy, r) ==
    [kind |-> "Circle", x |-> cx, y |-> cy, radius |-> r,
     width |-> 0, height |-> 0, children |-> <<>>]

Rectangle(rx, ry, w, hh) ==
    [kind |-> "Rectangle", x |-> rx, y |-> ry, radius |-> 0,
     width |-> w, height |-> hh, children |-> <<>>]

Group(gx, gy) ==
    [kind |-> "Group", x |-> gx, y |-> gy, radius |-> 0,
     width |-> 0, height |-> 0, children |-> <<>>]

EmptyHeap == [i \in ObjIds |-> Free]

Range(s) == {s[i] : i \in 1..Len(s)}

Front(s) == SubSeq(s, 1, Len(s) - 1)

Last(s) == s[Len(s)]

\* Group::add
add(h, g, obj) == [h EXCEPT ![g].children = Append(@, obj)]

\* move that also shifts the origin of the children and grandchildren
moveWithChildren(h, id, dx, dy) ==
    LET below == Range(h[id].children)
        inTree == {id} \cup below \cup UNION {Range(h[j].children) : j \in below}
    IN  [i \in DOMAIN h |->
           IF i \in inTree THEN [h[i] EXCEPT !.x = @ + dx, !.y = @ + dy] ELSE h[i]]

\* GraphicObject::move: x += dx; y += dy
move(h, id, dx, dy) == [h EXCEPT ![id].x = @ + dx, ![id].y = @ + dy]

(***************************************************************************)
(* containsPoint.  The value is the set of results the call can return:    *)
(* {TRUE} or {FALSE} when every int operation it performs is defined,      *)
(* BOOLEAN when it performs a signed overflow.                             *)
(***************************************************************************)
CircleContainsPoint(c, px, py) ==
    IF SubOverflows(px, c.x) \/ SubOverflows(py, c.y) THEN BOOLEAN
    ELSE LET dx == px - c.x
             dy == py - c.y
         IN  IF \/ SquareOverflows(dx)
                \/ SquareOverflows(dy)
                \/ SquareOverflows(c.radius)
             THEN BOOLEAN
             ELSE IF AddOverflows(dx * dx, dy * dy) THEN BOOLEAN
             ELSE {dx * dx + dy * dy <= c.radius * c.radius}

\* && evaluates left to right and stops at the first false operand
RectangleContainsPoint(c, px, py) ==
    IF ~(px >= c.x) THEN {FALSE}
    ELSE IF AddOverflows(c.x, c.width) THEN BOOLEAN
    ELSE IF ~(px <= c.x + c.width) THEN {FALSE}
    ELSE IF ~(py >= c.y) THEN {FALSE}
    ELSE IF AddOverflows(c.y, c.height) THEN BOOLEAN
    ELSE {py <= c.y + c.height}

RECURSIVE containsPoint(_, _, _, _)
RECURSIVE GroupContainsPoint(_, _, _, _, _)

\* Group::containsPoint ending with return true
RECURSIVE GroupContainsPointElseTrue(_, _, _, _, _)

GroupContainsPointElseTrue(h, g, i, px, py) ==
    IF i = 0 THEN {TRUE}
    ELSE IF SubOverflows(px, h[g].x) \/ SubOverflows(py, h[g].y) THEN BOOLEAN
    ELSE LET r == containsPoint(h, h[g].children[i], px - h[g].x, py - h[g].y)
         IN  IF r = BOOLEAN THEN BOOLEAN
             ELSE IF r = {TRUE} THEN {TRUE}
             ELSE GroupContainsPointElseTrue(h, g, i - 1, px, py)

\* the loop of Group::containsPoint, from children[i] down to children[1]
GroupContainsPoint(h, g, i, px, py) ==
    IF i = 0 THEN {FALSE}
    ELSE IF SubOverflows(px, h[g].x) \/ SubOverflows(py, h[g].y) THEN BOOLEAN
    ELSE LET r == containsPoint(h, h[g].children[i], px - h[g].x, py - h[g].y)
         IN  IF r = BOOLEAN THEN BOOLEAN
             ELSE IF r = {TRUE} THEN {TRUE}
             ELSE GroupContainsPoint(h, g, i - 1, px, py)

containsPoint(h, id, px, py) ==
    IF h[id].kind = "Circle" THEN CircleContainsPoint(h[id], px, py)
    ELSE IF h[id].kind = "Rectangle" THEN RectangleContainsPoint(h[id], px, py)
    ELSE GroupContainsPoint(h, id, Len(h[id].children), px, py)

\* every pointer a call that ran into undefined behaviour may hand back
AnyPtr == {NullPtr} \cup ObjIds

(***************************************************************************)
(* Group::findDeepest: the set of pointers the call can return.            *)
(***************************************************************************)
RECURSIVE findDeepest(_, _, _, _)
RECURSIVE FindDeepestFrom(_, _, _, _, _)

FindDeepestFrom(h, g, i, px, py) ==
    IF i = 0 THEN {g}
    ELSE IF SubOverflows(px, h[g].x) \/ SubOverflows(py, h[g].y) THEN AnyPtr
    ELSE LET child == h[g].children[i]
             r == containsPoint(h, child, px - h[g].x, py - h[g].y)
         IN  IF r = BOOLEAN THEN AnyPtr
             ELSE IF r = {TRUE}
                  THEN IF h[child].kind = "Group"
                       THEN findDeepest(h, child, px - h[g].x, py - h[g].y)
                       ELSE {child}
             ELSE FindDeepestFrom(h, g, i - 1, px, py)

\* findDeepest scanning the children in insertion order instead of reverse
RECURSIVE FindDeepestForward(_, _, _, _, _)

FindDeepestForward(h, g, i, px, py) ==
    IF i > Len(h[g].children) THEN {g}
    ELSE LET child == h[g].children[i]
             r == containsPoint(h, child, px - h[g].x, py - h[g].y)
         IN  IF r = BOOLEAN THEN AnyPtr
             ELSE IF r = {TRUE}
                  THEN IF h[child].kind = "Group"
                       THEN findDeepest(h, child, px - h[g].x, py - h[g].y)
                       ELSE {child}
             ELSE FindDeepestForward(h, g, i + 1, px, py)

findDeepestForward(h, g, px, py) == FindDeepestForward(h, g, 1, px, py)

\* findDeepest returning nullptr, not the Group, when no child matches
findDeepestNull(h, g, px, py) ==
    LET r == FindDeepestFrom(h, g, Len(h[g].children), px, py)
    IN  IF r = {g} THEN {NullPtr} ELSE r

findDeepest(h, g, px, py) == FindDeepestFrom(h, g, Len(h[g].children), px, py)

(***************************************************************************)
(* EditorFacade::findElementAt over the top-level vector objs.             *)
(***************************************************************************)
RECURSIVE FindElementFrom(_, _, _, _, _)

FindElementFrom(h, objs, i, px, py) ==
    IF i = 0 THEN {NullPtr}
    ELSE LET r == containsPoint(h, objs[i], px, py)
         IN  IF r = BOOLEAN THEN AnyPtr
             ELSE IF r = {TRUE}
                  THEN IF h[objs[i]].kind = "Group"
                       THEN findDeepest(h, objs[i], px, py)
                       ELSE {objs[i]}
             ELSE FindElementFrom(h, objs, i - 1, px, py)

\* findElementAt scanning objs in insertion order instead of reverse
RECURSIVE FindElementForward(_, _, _, _, _)

FindElementForward(h, objs, i, px, py) ==
    IF i > Len(objs) THEN {NullPtr}
    ELSE LET r == containsPoint(h, objs[i], px, py)
         IN  IF r = BOOLEAN THEN AnyPtr
             ELSE IF r = {TRUE}
                  THEN IF h[objs[i]].kind = "Group"
                       THEN findDeepest(h, objs[i], px, py)
                       ELSE {objs[i]}
             ELSE FindElementForward(h, objs, i + 1, px, py)

findElementAtForward(h, objs, px, py) == FindElementForward(h, objs, 1, px, py)

\* findElementAt starting one element after rbegin()
findElementAtSkipsLast(h, objs, px, py) ==
    FindElementFrom(h, objs, IF objs = <<>> THEN 0 ELSE Len(objs) - 1, px, py)

findElementAt(h, objs, px, py) == FindElementFrom(h, objs, Len(objs), px, py)

(***************************************************************************)
(* draw: the lines a shape writes, one record per line.                    *)
(***************************************************************************)
Line(n, o) == [indent |-> n, kind |-> o.kind, x |-> o.x, y |-> o.y,
               a |-> IF o.kind = "Circle" THEN o.radius ELSE o.width,
               b |-> o.height]

RECURSIVE draw(_, _, _)
RECURSIVE DrawChildren(_, _, _, _)

DrawChildren(h, g, i, indent) ==
    IF i > Len(h[g].children) THEN <<>>
    ELSE draw(h, h[g].children[i], indent + 1) \o DrawChildren(h, g, i + 1, indent)

draw(h, id, indent) ==
    IF h[id].kind = "Group"
    THEN <<Line(indent, h[id])>> \o DrawChildren(h, id, 1, indent)
    ELSE <<Line(indent, h[id])>>

(***************************************************************************)
(* clone.  The value is [h, n, ptr]: the heap with the copy in it, the     *)
(* next unused identity and the pointer to the copy.                       *)
(***************************************************************************)
RECURSIVE clone(_, _, _)
RECURSIVE CloneChildren(_, _, _, _, _)

\* the loop of Group::clone: newGroup->add(child->clone()) for each child
CloneChildren(h, n, g, newGroup, i) ==
    IF i > Len(h[g].children) THEN [h |-> h, n |-> n, ptr |-> newGroup]
    ELSE LET c == clone(h, h[g].children[i], n)
         IN  CloneChildren(add(c.h, newGroup, c.ptr), c.n, g, newGroup, i + 1)

\* clone copying the Group object itself, children pointers included
cloneShallow(h, id, n) == [h |-> [h EXCEPT ![n] = h[id]], n |-> n + 1, ptr |-> n]

clone(h, id, n) ==
    IF h[id].kind = "Group"
    THEN CloneChildren([h EXCEPT ![n] = Group(h[id].x, h[id].y)], n + 1, id, n, 1)
    ELSE [h |-> [h EXCEPT ![n] = h[id]], n |-> n + 1, ptr |-> n]

\* the number of objects clone allocates
RECURSIVE TreeSize(_, _)
RECURSIVE ChildrenSize(_, _, _)

ChildrenSize(h, g, i) ==
    IF i > Len(h[g].children) THEN 0
    ELSE TreeSize(h, h[g].children[i]) + ChildrenSize(h, g, i + 1)

TreeSize(h, id) ==
    IF h[id].kind = "Group" THEN 1 + ChildrenSize(h, id, 1) ELSE 1

\* the objects reachable from id through children, id included
RECURSIVE Reach(_, _)

Reach(h, id) ==
    {id} \cup UNION {Reach(h, h[id].children[i]) : i \in 1..Len(h[id].children)}

(***************************************************************************)
(* Shape requests: what createCircle, createRectangle and createGroup read *)
(* from the input (choice 1, 2, 3; any other choice is skipped).           *)
(***************************************************************************)
CircleReq(cx, cy, r) ==
    [choice |-> 1, x |-> cx, y |-> cy, a |-> r, b |-> 0, items |-> <<>>]

RectangleReq(rx, ry, w, hh) ==
    [choice |-> 2, x |-> rx, y |-> ry, a |-> w, b |-> hh, items |-> <<>>]

GroupReq(gx, gy, its) ==
    [choice |-> 3, x |-> gx, y |-> gy, a |-> 0, b |-> 0, items |-> its]

BadChoice == [choice |-> 4, x |-> 0, y |-> 0, a |-> 0, b |-> 0, items |-> <<>>]

\* createCircle / createRectangle: the object made from a validated request
createLeaf(req) ==
    IF req.choice = 1 THEN Circle(req.x, req.y, req.a)
    ELSE Rectangle(req.x, req.y, req.a, req.b)

RECURSIVE createGroup(_, _, _)
RECURSIVE CreateItems(_, _, _, _, _)

\* the loop of createGroup over the count objects it reads
CreateItems(h, n, g, items, i) ==
    IF i > Len(items) THEN [h |-> h, n |-> n, ptr |-> g]
    ELSE IF items[i].choice \in {1, 2}
         THEN CreateItems(add([h EXCEPT ![n] = createLeaf(items[i])], g, n),
                          n + 1, g, items, i + 1)
    ELSE IF items[i].choice = 3
         THEN LET sub == createGroup(h, n, items[i])
              IN  CreateItems(add(sub.h, g, sub.ptr), sub.n, g, items, i + 1)
    ELSE CreateItems(h, n, g, items, i + 1)

createGroup(h, n, req) ==
    CreateItems([h EXCEPT ![n] = Group(req.x, req.y)], n + 1, n, req.items, 1)

\* the number of objects a request allocates
RECURSIVE ReqSize(_)
RECURSIVE ItemsSize(_, _)

ItemsSize(items, i) ==
    IF i > Len(items) THEN 0 ELSE ReqSize(items[i]) + ItemsSize(items, i + 1)

ReqSize(req) ==
    IF req.choice \in {1, 2} THEN 1
    ELSE IF req.choice = 3 THEN 1 + ItemsSize(req.items, 1)
    ELSE 0

\* createCircle, createRectangle or createGroup, by the kind of the request
create(h, n, req) ==
    IF req.choice = 3 THEN createGroup(h, n, req)
    ELSE [h |-> [h EXCEPT ![n] = createLeaf(req)], n |-> n + 1, ptr |-> n]

Allocated(h) == {i \in ObjIds : h[i] # Free}

(***************************************************************************)
(* The inputs the menu is driven with.                                     *)
(***************************************************************************)
CircleInputs == {CircleReq(7, 7, 2)}

RectangleInputs == {RectangleReq(9, 9, 2, 2)}

GroupInputs ==
    { GroupReq(2, 2, <<RectangleReq(3, 4, 2, 3), CircleReq(1, 5, 2)>>),
      GroupReq(1, 1, <<>>),
      GroupReq(6, 6, <<BadChoice, GroupReq(1, 1, <<CircleReq(0, 0, 1)>>)>>) }

QueryPoints == {<<5, 6>>, <<7, 6>>, <<5, 7>>, <<6, 8>>, <<0, 0>>}

(***************************************************************************)
(* State.                                                                  *)
(***************************************************************************)
VARIABLES
    heap,       \* object identity -> shape object (Free: not allocated)
    nextObj,    \* the identity the next allocation gets
    objects,    \* EditorFacade::objects
    undoStack,  \* EditorFacade::undoStack, top last
    redoStack,  \* EditorFacade::redoStack, top last
    cmdObj,     \* AddCommand identity -> AddCommand::obj
    nextCmd,    \* the identity the next AddCommand gets
    pc,         \* where main is
    out,        \* the last call and what it returned or printed
    hist,       \* the last HistLen calls of addObject / undo / redo
    clonePair   \* <<s, c>> after c = s.clone(), until a tree is rebuilt

vars == <<heap, nextObj, objects, undoStack, redoStack, cmdObj, nextCmd,
          pc, out, hist, clonePair>>

editorVars == <<objects, undoStack, redoStack, cmdObj, nextCmd, hist>>

\* a call of the facade: what it printed (msg, lines) and returned (ptr)
Out(op, msg, ptr, px, py, lines) ==
    [op |-> op, target |-> NullPtr, msg |-> msg, ptr |-> ptr, res |-> FALSE,
     px |-> px, py |-> py, lines |-> lines]

\* a call of a shape's method on target: the bool (res) or pointer (ptr) returned
CallOut(op, target, px, py, res, ptr) ==
    [op |-> op, target |-> target, msg |-> "", ptr |-> ptr, res |-> res,
     px |-> px, py |-> py, lines |-> <<>>]

NoOut == Out("none", "", NullPtr, 0, 0, <<>>)

Snapshot == [objects |-> objects, undoStack |-> undoStack, redoStack |-> redoStack]

\* hist with one more call, the oldest dropped beyond HistLen
Logged(op, obj) ==
    LET s == Append(hist, [op |-> op, obj |-> obj, before |-> Snapshot])
    IN  IF Len(s) > HistLen THEN Tail(s) ELSE s

(***************************************************************************)
(* main, lines 311-320: c1, r1, group1 with its two leaves, group2 with    *)
(* its circle, group2 added to group1.                                     *)
(***************************************************************************)
c1 == 1
r1 == 2
group1 == 3
group2 == 6

MainHeap ==
    LET h1 == [EmptyHeap EXCEPT ![c1] = Circle(10, 10, 5)]
        h2 == [h1 EXCEPT ![r1] = Rectangle(5, 7, 5, 6)]
        h3 == [h2 EXCEPT ![group1] = Group(2, 2)]
        h4 == add([h3 EXCEPT ![4] = Rectangle(3, 4, 2, 3)], group1, 4)
        h5 == add([h4 EXCEPT ![5] = Circle(1, 5, 2)], group1, 5)
        h6 == [h5 EXCEPT ![group2] = Group(4, 6)]
        h7 == add([h6 EXCEPT ![7] = Circle(0, 1, 3)], group2, 7)
    IN  add(h7, group1, group2)

\* the shared_ptr variables of main, alive for the whole run
MainLocals == {c1, r1, group1, group2}

\* the addObject calls of main, lines 322-324
MainCalls ==
    [add_c1     |-> [obj |-> c1,     next |-> "add_group1"],
     add_group1 |-> [obj |-> group1, next |-> "add_r1"],
     add_r1     |-> [obj |-> r1,     next |-> "menu"]]

Init ==
    /\ heap = MainHeap
    /\ nextObj = 8
    /\ objects = <<>>
    /\ undoStack = <<>>
    /\ redoStack = <<>>
    /\ cmdObj = [c \in CmdIds |-> NullPtr]
    /\ nextCmd = 1
    /\ pc = "add_c1"
    /\ out = NoOut
    /\ hist = <<>>
    /\ clonePair = <<NullPtr, NullPtr>>

(***************************************************************************)
(* AddCommand                                                              *)
(***************************************************************************)
\* execute putting obj at the front of the vector
AddCommandExecuteFront(objs, obj) == <<obj>> \o objs

AddCommandExecute(objs, obj) == Append(objs, obj)

\* undo erasing the first element instead of the last
AddCommandUndoFirst(objs) == IF objs # <<>> THEN Tail(objs) ELSE objs

AddCommandUndo(objs) == IF objs # <<>> THEN Front(objs) ELSE objs

\* the objects some shared_ptr in roots keeps alive; the rest is destroyed
Release(h, roots) ==
    LET alive == UNION {Reach(h, r) : r \in roots}
    IN  [i \in ObjIds |-> IF i \in alive THEN h[i] ELSE Free]

(***************************************************************************)
(* EditorFacade                                                            *)
(***************************************************************************)
\* addObject without the loop that empties redoStack
addObjectKeepsRedo(h, obj) ==
    /\ nextCmd <= MaxCmd
    /\ LET cmd == nextCmd
           kept == [c \in CmdIds |-> IF c = cmd THEN obj ELSE cmdObj[c]]
       IN  /\ objects' = AddCommandExecute(objects, obj)
           /\ undoStack' = Append(undoStack, cmd)
           /\ redoStack' = redoStack
           /\ cmdObj' = kept
           /\ nextCmd' = nextCmd + 1
           /\ heap' = Release(h, MainLocals \cup Range(objects')
                                   \cup {kept[c] : c \in Range(undoStack')
                                                     \cup Range(redoStack')})
    /\ hist' = Logged("addObject", obj)

\* addObject(obj) on the heap h the caller has built obj in
addObject(h, obj) ==
    /\ nextCmd <= MaxCmd
    /\ LET cmd == nextCmd
           kept == [c \in CmdIds |->
                      IF c = cmd THEN obj
                      ELSE IF c \in Range(redoStack) THEN NullPtr
                      ELSE cmdObj[c]]
       IN  /\ objects' = AddCommandExecute(objects, obj)
           /\ undoStack' = Append(undoStack, cmd)
           /\ redoStack' = <<>>
           /\ cmdObj' = kept
           /\ nextCmd' = nextCmd + 1
           /\ heap' = Release(h, MainLocals \cup Range(objects')
                                   \cup {kept[c] : c \in Range(undoStack')})
    /\ hist' = Logged("addObject", obj)

\* undo that moves the command without calling its undo()
undoKeepsObject ==
    /\ IF undoStack # <<>>
       THEN LET cmd == Last(undoStack)
            IN  /\ undoStack' = Front(undoStack)
                /\ objects' = objects
                /\ redoStack' = Append(redoStack, cmd)
                /\ out' = Out("undo", "", NullPtr, 0, 0, <<>>)
       ELSE /\ UNCHANGED <<objects, undoStack, redoStack>>
            /\ out' = Out("undo", "nothing to undo", NullPtr, 0, 0, <<>>)
    /\ hist' = Logged("undo", NullPtr)
    /\ UNCHANGED <<heap, nextObj, cmdObj, nextCmd>>

\* undo that empties redoStack when there is nothing to undo
undoClearsRedo ==
    /\ IF undoStack # <<>>
       THEN LET cmd == Last(undoStack)
            IN  /\ undoStack' = Front(undoStack)
                /\ objects' = AddCommandUndo(objects)
                /\ redoStack' = Append(redoStack, cmd)
                /\ out' = Out("undo", "", NullPtr, 0, 0, <<>>)
       ELSE /\ UNCHANGED <<objects, undoStack>>
            /\ redoStack' = <<>>
            /\ out' = Out("undo", "nothing to undo", NullPtr, 0, 0, <<>>)
    /\ hist' = Logged("undo", NullPtr)
    /\ UNCHANGED <<heap, nextObj, cmdObj, nextCmd>>

undo ==
    /\ IF undoStack # <<>>
       THEN LET cmd == Last(undoStack)
            IN  /\ undoStack' = Front(undoStack)
                /\ objects' = AddCommandUndo(objects)
                /\ redoStack' = Append(redoStack, cmd)
                /\ out' = Out("undo", "", NullPtr, 0, 0, <<>>)
       ELSE /\ UNCHANGED <<objects, undoStack, redoStack>>
            /\ out' = Out("undo", "nothing to undo", NullPtr, 0, 0, <<>>)
    /\ hist' = Logged("undo", NullPtr)
    /\ UNCHANGED <<heap, nextObj, cmdObj, nextCmd>>

\* redo that leaves the command on redoStack
redoKeepsCommand ==
    /\ IF redoStack # <<>>
       THEN LET cmd == Last(redoStack)
            IN  /\ redoStack' = redoStack
                /\ objects' = AddCommandExecute(objects, cmdObj[cmd])
                /\ undoStack' = Append(undoStack, cmd)
                /\ out' = Out("redo", "", NullPtr, 0, 0, <<>>)
       ELSE /\ UNCHANGED <<objects, undoStack, redoStack>>
            /\ out' = Out("redo", "nothing to redo", NullPtr, 0, 0, <<>>)
    /\ hist' = Logged("redo", NullPtr)
    /\ UNCHANGED <<heap, nextObj, cmdObj, nextCmd>>

redo ==
    /\ IF redoStack # <<>>
       THEN LET cmd == Last(redoStack)
            IN  /\ redoStack' = Front(redoStack)
                /\ objects' = AddCommandExecute(objects, cmdObj[cmd])
                /\ undoStack' = Append(undoStack, cmd)
                /\ out' = Out("redo", "", NullPtr, 0, 0, <<>>)
       ELSE /\ UNCHANGED <<objects, undoStack, redoStack>>
            /\ out' = Out("redo", "nothing to redo", NullPtr, 0, 0, <<>>)
    /\ hist' = Logged("redo", NullPtr)
    /\ UNCHANGED <<heap, nextObj, cmdObj, nextCmd>>

RECURSIVE PrintFrom(_, _, _)

PrintFrom(h, objs, i) ==
    IF i > Len(objs) THEN <<>>
    ELSE draw(h, objs[i], 0) \o PrintFrom(h, objs, i + 1)

\* print that takes the shapes out of objects as it draws them
printConsumes ==
    /\ out' = IF objects = <<>>
              THEN Out("print", "empty", NullPtr, 0, 0, <<>>)
              ELSE Out("print", "", NullPtr, 0, 0, PrintFrom(heap, objects, 1))
    /\ objects' = <<>>
    /\ UNCHANGED <<heap, nextObj, undoStack, redoStack, cmdObj, nextCmd, hist>>

print ==
    /\ out' = IF objects = <<>>
              THEN Out("print", "empty", NullPtr, 0, 0, <<>>)
              ELSE Out("print", "", NullPtr, 0, 0, PrintFrom(heap, objects, 1))
    /\ UNCHANGED <<heap, nextObj, editorVars>>

(***************************************************************************)
(* main and menu                                                           *)
(***************************************************************************)
MainAddObject ==
    /\ pc \in DOMAIN MainCalls
    /\ addObject(heap, MainCalls[pc].obj)
    /\ pc' = MainCalls[pc].next
    /\ out' = Out("addObject", "", NullPtr, 0, 0, <<>>)
    /\ UNCHANGED <<nextObj, clonePair>>

\* menu cases 1 and 2
MenuAddLeaf(req) ==
    /\ pc = "menu"
    /\ nextObj <= MaxObj
    /\ addObject([heap EXCEPT ![nextObj] = createLeaf(req)], nextObj)
    /\ nextObj' = nextObj + 1
    /\ out' = Out("addObject", "added", NullPtr, 0, 0, <<>>)
    /\ UNCHANGED <<pc, clonePair>>

\* menu case 3
MenuAddGroup(req) ==
    /\ pc = "menu"
    /\ nextObj + ReqSize(req) - 1 <= MaxObj
    /\ LET g == createGroup(heap, nextObj, req)
       IN  /\ addObject(g.h, g.ptr)
           /\ nextObj' = g.n
    /\ out' = Out("addObject", "added", NullPtr, 0, 0, <<>>)
    /\ UNCHANGED <<pc, clonePair>>

\* menu case 4
MenuPrint ==
    /\ pc = "menu"
    /\ print
    /\ UNCHANGED <<pc, clonePair>>

\* menu case 5
MenuUndo ==
    /\ pc = "menu"
    /\ undo
    /\ UNCHANGED <<pc, clonePair>>

\* menu case 6
MenuRedo ==
    /\ pc = "menu"
    /\ redo
    /\ UNCHANGED <<pc, clonePair>>

\* menu case 7
MenuFind(px, py) ==
    /\ pc = "menu"
    /\ \E found \in findElementAt(heap, objects, px, py) :
         out' = Out("findElementAt",
                    IF found # NullPtr THEN "found" ELSE "not found",
                    found, px, py,
                    IF found # NullPtr THEN draw(heap, found, 0) ELSE <<>>)
    /\ UNCHANGED <<heap, nextObj, editorVars, pc, clonePair>>

Next ==
    \/ MainAddObject
    \/ \E req \in CircleInputs \cup RectangleInputs : MenuAddLeaf(req)
    \/ \E req \in GroupInputs : MenuAddGroup(req)
    \/ MenuPrint
    \/ MenuUndo
    \/ MenuRedo
    \/ \E p \in QueryPoints : MenuFind(p[1], p[2])

Spec == Init /\ [][Next]_vars

(***************************************************************************)
(* The shape classes on their own: one shape is built, then its methods    *)
(* are called.  SpecGeometry calls containsPoint and findDeepest,          *)
(* SpecClone calls clone and move, SpecMove calls move and containsPoint.  *)
(***************************************************************************)
Origins == {<<0, 0>>, <<1, -2>>, <<-1, 1>>}

\* 46340 is the greatest int whose square is an int
Radii == {1, 2, 46340, 46341}

GeometryInputs ==
    {CircleReq(o[1], o[2], r) : o \in Origins, r \in Radii}
      \cup {RectangleReq(o[1], o[2], 2, 1) : o \in Origins}
      \cup {RectangleReq(1, 1, IntMax, 1)}
      \cup {GroupReq(o[1], o[2], <<CircleReq(c[1], c[2], r)>>) :
               o \in Origins, c \in Origins, r \in {1, 2, 46341}}
      \cup { GroupReq(1, -2, <<RectangleReq(0, 0, 2, 1), CircleReq(0, 0, 1)>>),
             GroupReq(1, -2, <<GroupReq(-1, 1, <<CircleReq(0, 0, 2)>>)>>),
             GroupReq(0, 0, <<>>) }

Grid == {<<gx, gy>> : gx \in (-GridMax)..GridMax, gy \in (-GridMax)..GridMax}

\* the grid, for every circle at (x, y) with radius r the point (x+r+1, y),
\* and for every child at (x, y) of a group at (gx, gy) the point (gx+x, gy+y)
GeometryPoints(h) ==
    Grid \cup {<<h[i].x + h[i].radius + 1, h[i].y>> :
                  i \in {j \in Allocated(h) : h[j].kind = "Circle"}}
         \cup UNION {{<<h[g].x + h[k].x, h[g].y + h[k].y>> : k \in Range(h[g].children)} :
                        g \in Allocated(h)}

CloneInputs ==
    { CircleReq(0, 0, 1),
      GroupReq(0, 0, <<RectangleReq(0, 0, 1, 1), CircleReq(0, 0, 1)>>),
      GroupReq(0, 0, <<GroupReq(0, 0, <<CircleReq(0, 0, 1)>>)>>) }

Deltas == {<<1, -1>>}

\* the state with the one shape of req built and no editor call made
Built(req) ==
    LET b == create(EmptyHeap, 1, req)
    IN  /\ heap = b.h
        /\ nextObj = b.n
        /\ objects = <<>>
        /\ undoStack = <<>>
        /\ redoStack = <<>>
        /\ cmdObj = [c \in CmdIds |-> NullPtr]
        /\ nextCmd = 1
        /\ pc = "shapes"
        /\ out = NoOut
        /\ hist = <<>>
        /\ clonePair = <<NullPtr, NullPtr>>

InitGeometry == \E req \in GeometryInputs : Built(req)

InitClone == \E req \in CloneInputs : Built(req)

CallContainsPoint(s, px, py) ==
    /\ \E res \in containsPoint(heap, s, px, py) :
         out' = CallOut("containsPoint", s, px, py, res, NullPtr)
    /\ UNCHANGED <<heap, nextObj, editorVars, pc, clonePair>>

CallFindDeepest(g, px, py) ==
    /\ heap[g].kind = "Group"
    /\ \E ptr \in findDeepest(heap, g, px, py) :
         out' = CallOut("findDeepest", g, px, py, FALSE, ptr)
    /\ UNCHANGED <<heap, nextObj, editorVars, pc, clonePair>>

CallClone(s) ==
    /\ nextObj + TreeSize(heap, s) - 1 <= MaxShapes
    /\ LET c == clone(heap, s, nextObj)
       IN  /\ heap' = c.h
           /\ nextObj' = c.n
           /\ clonePair' = <<s, c.ptr>>
           /\ out' = CallOut("clone", s, 0, 0, FALSE, c.ptr)
    /\ UNCHANGED <<editorVars, pc>>

\* coordinates are kept within MaxCoord of 0, so x += dx never overflows
CallMove(s, dx, dy) ==
    /\ Abs(heap[s].x + dx) <= MaxCoord
    /\ Abs(heap[s].y + dy) <= MaxCoord
    /\ heap' = move(heap, s, dx, dy)
    /\ out' = CallOut("move", s, dx, dy, FALSE, NullPtr)
    /\ UNCHANGED <<nextObj, editorVars, pc, clonePair>>

NextGeometry ==
    \/ \E s \in Allocated(heap), p \in GeometryPoints(heap) :
          CallContainsPoint(s, p[1], p[2])
    \/ \E g \in Allocated(heap), p \in GeometryPoints(heap) :
          CallFindDeepest(g, p[1], p[2])

SpecGeometry == InitGeometry /\ [][NextGeometry]_vars

NextClone ==
    \/ \E s \in Allocated(heap) : CallClone(s)
    \/ \E s \in Allocated(heap), d \in Deltas : CallMove(s, d[1], d[2])

SpecClone == InitClone /\ [][NextClone]_vars

\* one tree is built, then its shapes are moved and asked for points
NextMove ==
    \/ \E s \in Allocated(heap), d \in Deltas : CallMove(s, d[1], d[2])
    \/ \E s \in Allocated(heap), p \in Grid : CallContainsPoint(s, p[1], p[2])

SpecMove == InitClone /\ [][NextMove]_vars

(***************************************************************************)
(* The classes as a caller other than menu can use them: with the shapes   *)
(* of main built and its shared_ptr variables in hand, any of them is      *)
(* given to addObject or to Group::add, in any order with undo and redo.   *)
(***************************************************************************)
InitApi ==
    /\ heap = MainHeap
    /\ nextObj = 8
    /\ objects = <<>>
    /\ undoStack = <<>>
    /\ redoStack = <<>>
    /\ cmdObj = [c \in CmdIds |-> NullPtr]
    /\ nextCmd = 1
    /\ pc = "api"
    /\ out = NoOut
    /\ hist = <<>>
    /\ clonePair = <<NullPtr, NullPtr>>

\* the variables of main whose type is shared_ptr<Group>
MainGroups == {group1, group2}

ApiAddObject(s) ==
    /\ pc = "api"
    /\ addObject(heap, s)
    /\ out' = Out("addObject", "", NullPtr, 0, 0, <<>>)
    /\ UNCHANGED <<nextObj, pc, clonePair>>

\* g->add(s); a Group is not added below itself, and children stays
\* within MaxKids
ApiGroupAdd(g, s) ==
    /\ pc = "api"
    /\ g \notin Reach(heap, s)
    /\ Len(heap[g].children) < MaxKids
    /\ heap' = add(heap, g, s)
    /\ out' = CallOut("add", g, 0, 0, FALSE, s)
    /\ UNCHANGED <<nextObj, editorVars, pc, clonePair>>

ApiUndo ==
    /\ pc = "api"
    /\ undo
    /\ UNCHANGED <<pc, clonePair>>

ApiRedo ==
    /\ pc = "api"
    /\ redo
    /\ UNCHANGED <<pc, clonePair>>

NextApi ==
    \/ \E s \in MainLocals : ApiAddObject(s)
    \/ \E g \in MainGroups, s \in MainLocals : ApiGroupAdd(g, s)
    \/ ApiUndo
    \/ ApiRedo

SpecApi == InitApi /\ [][NextApi]_vars

(***************************************************************************)
(* Properties of the command history (specification Spec).                 *)
(***************************************************************************)
\* the k-th call from the end of hist (1: the last call)
Call(k) == hist[Len(hist) + 1 - k]

\* the last calls were ops, in this order
LastCalls(ops) ==
    /\ Len(hist) >= Len(ops)
    /\ \A k \in 1..Len(ops) : Call(k).op = ops[Len(ops) + 1 - k]

\* C1: addObject(s) followed by undo() leaves the top-level sequence as it
\* was before the add, and a redo() after that makes it the previous
\* sequence with s appended, s being the shape given to addObject.
C1_HistoryRoundTrip ==
    /\ LastCalls(<<"addObject", "undo">>)
          => objects = Call(2).before.objects
    /\ LastCalls(<<"addObject", "undo", "redo">>)
          => /\ objects = Append(Call(3).before.objects, Call(3).obj)
             /\ heap[Call(3).obj] # Free

C1_Witness ==
    /\ LastCalls(<<"addObject", "undo", "redo">>)
    /\ out.op = "redo"
    /\ Call(3).before.objects # <<>>

\* C2: every addObject leaves redoStack empty; in addObject(a), undo(),
\* addObject(b), redo() the redo reports that there is nothing to redo,
\* changes nothing, and a is not back in the document.
C2_RedoInvalidation ==
    /\ LastCalls(<<"addObject">>) => redoStack = <<>>
    /\ LastCalls(<<"addObject", "redo">>)
          => /\ redoStack = <<>>
             /\ objects = Append(Call(2).before.objects, Call(2).obj)
             /\ out.op = "redo" => out.msg = "nothing to redo"
    /\ LastCalls(<<"addObject", "undo", "addObject", "redo">>)
          => /\ objects = Append(Call(4).before.objects, Call(2).obj)
             /\ out.op = "redo" => out.msg = "nothing to redo"

C2_Witness ==
    /\ LastCalls(<<"addObject", "undo", "addObject", "redo">>)
    /\ out.op = "redo"
    /\ Call(4).obj # Call(2).obj

\* C3: undo() with undoStack empty and redo() with redoStack empty change
\* neither the document nor the two stacks and end with their message.
C3_UnderflowIsNoOp ==
    /\ (LastCalls(<<"undo">>) /\ Call(1).before.undoStack = <<>>)
          => /\ Snapshot = Call(1).before
             /\ out.op = "undo" => out.msg = "nothing to undo"
    /\ (LastCalls(<<"redo">>) /\ Call(1).before.redoStack = <<>>)
          => /\ Snapshot = Call(1).before
             /\ out.op = "redo" => out.msg = "nothing to redo"

C3_Witness ==
    /\ LastCalls(<<"undo">>)
    /\ Call(1).before.undoStack = <<>>
    /\ Call(1).before.redoStack # <<>>
    /\ out.op = "undo"
    /\ out.msg = "nothing to undo"

\* the commands on the two stacks
InStacks == Range(undoStack) \cup Range(redoStack)

\* no command twice; what the last undo or redo did to the stacks
C4_State ==
    /\ Cardinality(InStacks) = Len(undoStack) + Len(redoStack)
    /\ (LastCalls(<<"undo">>) /\ Call(1).before.undoStack # <<>>)
          => /\ undoStack = Front(Call(1).before.undoStack)
             /\ redoStack = Append(Call(1).before.redoStack,
                                   Last(Call(1).before.undoStack))
    /\ (LastCalls(<<"redo">>) /\ Call(1).before.redoStack # <<>>)
          => /\ redoStack = Front(Call(1).before.redoStack)
             /\ undoStack = Append(Call(1).before.undoStack,
                                   Last(Call(1).before.redoStack))

\* a command that leaves both stacks was on redoStack, and the step is an
\* addObject, which empties redoStack
C4_Step ==
    \A c \in CmdIds :
        (c \in InStacks /\ c \notin InStacks')
            => /\ c \in Range(redoStack)
               /\ nextCmd' = nextCmd + 1
               /\ redoStack' = <<>>

\* C4: a command is in at most one of the two stacks and at most once;
\* undo() moves the top of undoStack to the top of redoStack and redo()
\* the top of redoStack to the top of undoStack; a command leaves both
\* stacks only by addObject emptying redoStack.
C4_StackDiscipline == [](C4_State) /\ [][C4_Step]_vars

\* a command has gone undoStack -> redoStack -> undoStack -> redoStack
C4_Witness ==
    /\ LastCalls(<<"addObject", "undo", "redo", "undo">>)
    /\ Call(4).before.redoStack # <<>>
    /\ out.op = "undo"

(***************************************************************************)
(* Properties of the lookup (specification Spec).                          *)
(***************************************************************************)
Contains(id, px, py) == containsPoint(heap, id, px, py) = {TRUE}

\* the last call was findElementAt with two top-level shapes, the last of
\* them B and an earlier one A, both containing the point
Occluded ==
    /\ out.op = "findElementAt"
    /\ Len(objects) >= 2
    /\ Contains(Last(objects), out.px, out.py)
    /\ \E i \in 1..(Len(objects) - 1) : Contains(objects[i], out.px, out.py)

\* C5 as stated: with A added before B, B the last element, a point inside
\* both resolves findElementAt to B.
C5_ReturnsLastAdded == Occluded => out.ptr = Last(objects)

\* C5: with A added before B, B the last element, a point inside both
\* resolves findElementAt to B when B is a Circle or a Rectangle, and to
\* what B.findDeepest returns, a shape inside B, when B is a Group.
C5_Occlusion ==
    Occluded =>
        IF heap[Last(objects)].kind = "Group"
        THEN /\ out.ptr \in findDeepest(heap, Last(objects), out.px, out.py)
             /\ out.ptr \in Reach(heap, Last(objects))
        ELSE out.ptr = Last(objects)

C5_Witness ==
    /\ Occluded
    /\ heap[Last(objects)].kind = "Group"
    /\ \E i \in 1..(Len(objects) - 1) :
          /\ Contains(objects[i], out.px, out.py)
          /\ heap[objects[i]].kind # "Group"

\* the greatest index of s whose shape contains the point, 0 if none does
Topmost(s, px, py) ==
    LET hits == {i \in 1..Len(s) : Contains(s[i], px, py)}
    IN  IF hits = {} THEN 0 ELSE CHOOSE i \in hits : \A j \in hits : j <= i

\* the selection of C6 carried on from the selected shape sel
RECURSIVE Descend(_, _, _)

Descend(sel, px, py) ==
    IF heap[sel].kind # "Group" THEN sel
    ELSE LET qx == px - heap[sel].x
             qy == py - heap[sel].y
             i == Topmost(heap[sel].children, qx, qy)
         IN  IF i = 0 THEN NullPtr ELSE Descend(heap[sel].children[i], qx, qy)

\* the document of the scenario: Circle(10,10,5), then Group(2,2) holding
\* Rectangle(3,4,2,3) and Circle(1,5,2)
ScenarioDocument ==
    /\ Len(objects) = 2
    /\ heap[objects[1]] = Circle(10, 10, 5)
    /\ [heap[objects[2]] EXCEPT !.children = <<>>] = Group(2, 2)
    /\ Len(heap[objects[2]].children) = 2
    /\ heap[heap[objects[2]].children[1]] = Rectangle(3, 4, 2, 3)
    /\ heap[heap[objects[2]].children[2]] = Circle(1, 5, 2)

\* C6: findElementAt takes the last top-level shape containing the point;
\* while the selected shape is a Group it subtracts the Group's origin and
\* takes the last child containing the translated point; the leaf it ends
\* on is returned.  In the scenario document (5,6) gives the Rectangle.
C6_DeepestHit ==
    /\ (out.op = "findElementAt" /\ Topmost(objects, out.px, out.py) # 0)
          => /\ out.ptr = Descend(objects[Topmost(objects, out.px, out.py)],
                                  out.px, out.py)
             /\ out.ptr # NullPtr
             /\ heap[out.ptr].kind \in {"Circle", "Rectangle"}
    /\ (out.op = "findElementAt" /\ ScenarioDocument
           /\ out.px = 5 /\ out.py = 6)
          => heap[out.ptr] = Rectangle(3, 4, 2, 3)

C6_Witness ==
    /\ out.op = "findElementAt"
    /\ ScenarioDocument
    /\ out.px = 5
    /\ out.py = 6

\* C7: findElementAt returns nullptr exactly when no top-level shape
\* contains the point, returns a shape otherwise, and always returns.
C7_HitTestMiss ==
    out.op = "findElementAt" =>
        /\ (out.ptr = NullPtr) <=> (Topmost(objects, out.px, out.py) = 0)
        /\ out.ptr # NullPtr => heap[out.ptr] # Free
        /\ findElementAt(heap, objects, out.px, out.py) = {out.ptr}

C7_Witness ==
    /\ out.op = "findElementAt"
    /\ out.ptr = NullPtr
    /\ objects # <<>>
    /\ \E i \in 1..Len(objects) : heap[objects[i]].kind = "Group"

(***************************************************************************)
(* Properties of the shape classes (SpecClone, SpecGeometry).              *)
(***************************************************************************)
Cloned == clonePair[1] # NullPtr

\* the step is move on an object of the tree of root
MovedIn(root) == out'.op = "move" /\ out'.target \in Reach(heap, root)

UnchangedIn(root) == \A o \in Reach(heap, root) : heap'[o] = heap[o]

\* original and clone share no object
C8_State == Cloned => Reach(heap, clonePair[1]) \cap Reach(heap, clonePair[2]) = {}

\* move in one of the two trees changes nothing in the other
C8_Step ==
    (Cloned /\ heap' # heap) =>
        /\ MovedIn(clonePair[1]) => UnchangedIn(clonePair[2])
        /\ MovedIn(clonePair[2]) => UnchangedIn(clonePair[1])

\* C8: after c = s.clone() no object is both in the tree of s and in the
\* tree of c, move on s or on a descendant of s changes no object of the
\* tree of c, and move on c or on a descendant of c none of the tree of s.
C8_CloneIndependence == [](C8_State) /\ [][C8_Step]_vars

\* a descendant two levels below the original has been moved after the clone
C8_Witness ==
    /\ Cloned
    /\ out.op = "move"
    /\ \E g \in Range(heap[clonePair[1]].children) :
          /\ heap[g].kind = "Group"
          /\ out.target \in Range(heap[g].children)
    /\ TreeSize(heap, clonePair[2]) = TreeSize(heap, clonePair[1])

\* C9: for every Circle(x, y, r) with r > 0, containsPoint(x, y) is true
\* and containsPoint(x + r + 1, y) is false.
C9_ContainmentConsistency ==
    (out.op = "containsPoint" /\ heap[out.target].kind = "Circle") =>
        LET c == heap[out.target]
        IN  /\ (out.px = c.x /\ out.py = c.y) => out.res
            /\ (out.px = c.x + c.radius + 1 /\ out.py = c.y) => ~out.res

\* (dx, dy) is farther than r from the origin; left FALSE where r * r is
\* no int and neither |dx| nor |dy| exceeds r
ExceedsRadius(dx, dy, r) ==
    \/ Abs(dx) > r
    \/ Abs(dy) > r
    \/ ~SquareOverflows(r) /\ dx * dx + dy * dy > r * r

\* C10: a Group at (gx, gy) whose only child is a Circle at local (cx, cy)
\* with radius r contains (gx + cx, gy + cy) and contains no point farther
\* than r from it; a Group contains a point iff some child contains the
\* point minus the Group's origin.
C10_GroupFrameComposition ==
    (out.op = "containsPoint" /\ heap[out.target].kind = "Group") =>
        LET g == heap[out.target]
            qx == out.px - g.x
            qy == out.py - g.y
            kids == g.children
        IN  /\ (Len(kids) = 1 /\ heap[kids[1]].kind = "Circle") =>
                  LET c == heap[kids[1]]
                  IN  /\ (qx = c.x /\ qy = c.y) => out.res
                      /\ ExceedsRadius(qx - c.x, qy - c.y, c.radius) => ~out.res
            /\ out.res =>
                  \E i \in 1..Len(kids) : TRUE \in containsPoint(heap, kids[i], qx, qy)
            /\ ~out.res =>
                  \A i \in 1..Len(kids) : FALSE \in containsPoint(heap, kids[i], qx, qy)

(***************************************************************************)
(* Further properties of the command history (specification Spec).         *)
(***************************************************************************)
\* the shapes the commands of stack appended, bottom to top
Added(stack) == [i \in 1..Len(stack) |-> cmdObj[stack[i]]]

\* C11: the top-level sequence is the sequence of the shapes added by the
\* commands of undoStack, bottom to top; when undo() pops a command the
\* document is not empty and the element removed is the shape that command
\* appended.
C11_UndoRemovesOwnShape ==
    /\ objects = Added(undoStack)
    /\ (LastCalls(<<"undo">>) /\ Call(1).before.undoStack # <<>>)
          => /\ Call(1).before.objects # <<>>
             /\ Last(Call(1).before.objects) = cmdObj[Last(Call(1).before.undoStack)]
             /\ objects = Front(Call(1).before.objects)

C11_Witness ==
    /\ LastCalls(<<"addObject", "undo", "addObject", "undo">>)
    /\ Len(Call(1).before.objects) >= 2
    /\ out.op = "undo"
    /\ out.msg = ""

\* the last 2k calls were k undo() that each popped a command, then k redo()
UndosThenRedos(k) ==
    /\ Len(hist) >= 2 * k
    /\ \A j \in 1..k : Call(j).op = "redo" /\ Call(k + j).op = "undo"
    /\ Len(Call(2 * k).before.undoStack) >= k

\* C17: with undoStack non-empty, undo() then redo() restores the document
\* sequence, undoStack and redoStack; with redoStack non-empty, redo() then
\* undo() does; k undo() followed by k redo() restore the document in its
\* original order.
C17_UndoRedoInverse ==
    /\ \A k \in 1..(HistLen \div 2) :
          UndosThenRedos(k) => Snapshot = Call(2 * k).before
    /\ (LastCalls(<<"redo", "undo">>) /\ Call(2).before.redoStack # <<>>)
          => Snapshot = Call(2).before

\* two undo() then two redo() on a document of three shapes
C17_Witness ==
    /\ UndosThenRedos(2)
    /\ Len(objects) >= 3
    /\ out.op = "redo"
    /\ out.msg = ""

(***************************************************************************)
(* Further properties of the shape classes (SpecGeometry, SpecMove).       *)
(***************************************************************************)
\* no child of the Group g contains the point minus g's origin
NoChildContains(g, px, py) ==
    /\ ~SubOverflows(px, heap[g].x)
    /\ ~SubOverflows(py, heap[g].y)
    /\ \A i \in 1..Len(heap[g].children) :
          containsPoint(heap, heap[g].children[i],
                        px - heap[g].x, py - heap[g].y) = {FALSE}

\* C12: findDeepest(px, py) on a Group none of whose children contains the
\* point minus the Group's origin, a Group without children included,
\* returns that Group itself.
C12_FindDeepestReturnsSelf ==
    (out.op = "findDeepest" /\ NoChildContains(out.target, out.px, out.py))
        => /\ out.ptr = out.target
           /\ heap[out.ptr].kind = "Group"

\* a Group with two children, neither containing the translated point
C12_Witness ==
    /\ out.op = "findDeepest"
    /\ Len(heap[out.target].children) = 2
    /\ NoChildContains(out.target, out.px, out.py)

\* the step is move(dx, dy) on a Group
GroupMoved == out'.op = "move" /\ heap' # heap /\ heap[out'.target].kind = "Group"

C13_Step ==
    GroupMoved =>
        LET g == out'.target
            dx == out'.px
            dy == out'.py
        IN  /\ heap'[g] = [heap[g] EXCEPT !.x = @ + dx, !.y = @ + dy]
            /\ \A o \in ObjIds \ {g} : heap'[o] = heap[o]
            /\ \A p \in Grid :
                  containsPoint(heap', g, p[1] + dx, p[2] + dy)
                      = containsPoint(heap, g, p[1], p[2])

\* C13: Group.move(dx, dy) adds (dx, dy) to the Group's own origin and
\* changes no other object, so no descendant's origin or size; for every
\* point (px, py) the Group's containsPoint(px + dx, py + dy) after the
\* move is its containsPoint(px, py) before the move.
C13_GroupMoveIsRigid == [][C13_Step]_vars

\* a Group holding a Group has been moved, and contains some point
C13_Witness ==
    /\ out.op = "move"
    /\ heap[out.target].kind = "Group"
    /\ heap[out.target].x = out.px
    /\ \E k \in Range(heap[out.target].children) :
          heap[k].kind = "Group" /\ heap[k].children # <<>>
    /\ \E p \in Grid : containsPoint(heap, out.target, p[1], p[2]) = {TRUE}

\* C14: for Rectangle(x, y, w, h) with w > 0 and h > 0, containsPoint(px, py)
\* is true iff x <= px <= x + w and y <= py <= y + h.  (px <= x + w is
\* written px - x <= w, which stays in range where x + w does not.)
C14_RectangleInclusiveBox ==
    (/\ out.op = "containsPoint"
     /\ heap[out.target].kind = "Rectangle"
     /\ heap[out.target].width > 0
     /\ heap[out.target].height > 0)
        => LET c == heap[out.target]
           IN  out.res <=> /\ c.x <= out.px
                           /\ out.px - c.x <= c.width
                           /\ c.y <= out.py
                           /\ out.py - c.y <= c.height

(***************************************************************************)
(* Properties of the queries (specification Spec).                         *)
(***************************************************************************)
\* the step is a call of findElementAt or of print
Queried == out'.op \in {"findElementAt", "print"}

C15_Step ==
    Queried => UNCHANGED <<heap, nextObj, objects, undoStack, redoStack,
                           cmdObj, nextCmd, hist>>

\* C15: findElementAt(x, y) and print() leave the top-level sequence, every
\* shape's coordinates and children, undoStack, redoStack and the commands
\* unchanged, so a following addObject, undo or redo starts from the state
\* it would have started from without the query.
C15_QueriesReadOnly == [][C15_Step]_vars

\* print of a non-empty document between an undo and what follows it
C15_Witness ==
    /\ out.op = "print"
    /\ out.lines # <<>>
    /\ redoStack # <<>>
    /\ undoStack # <<>>
    /\ LastCalls(<<"undo">>)

\* the Circles and Rectangles below id, id included
Leaves(id) == {o \in Reach(heap, id) : heap[o].kind \in {"Circle", "Rectangle"}}

\* C18: findElementAt returns nullptr or a Circle or Rectangle, never a
\* Group: the findDeepest it calls on a Group that contains the point finds
\* a matching child at every level, and a Group with no leaf below it
\* contains no point.
C18_NeverReturnsGroup ==
    out.op = "findElementAt" =>
        /\ out.ptr # NullPtr => heap[out.ptr].kind \in {"Circle", "Rectangle"}
        /\ \A i \in 1..Len(objects) :
              /\ Leaves(objects[i]) = {} => ~Contains(objects[i], out.px, out.py)
              /\ (heap[objects[i]].kind = "Group"
                     /\ Contains(objects[i], out.px, out.py))
                    => findDeepest(heap, objects[i], out.px, out.py)
                           \subseteq Leaves(objects[i])

\* a Group without children is the last top-level shape and the lookup
\* went past it into a Group below
C18_Witness ==
    /\ out.op = "findElementAt"
    /\ objects # <<>>
    /\ heap[Last(objects)] = Group(1, 1)
    /\ out.ptr # NullPtr
    /\ \E i \in 1..Len(objects) :
          /\ heap[objects[i]].kind = "Group"
          /\ out.ptr \in Leaves(objects[i])

(***************************************************************************)
(* Ownership (specification SpecApi).                                      *)
(***************************************************************************)
\* the objects of the document's shape tree
DocTree == UNION {Reach(heap, objects[i]) : i \in 1..Len(objects)}

\* the positions of the shape tree: <<0, i>> is objects[i], <<g, i>> is
\* children[i] of the Group g
Positions ==
    {<<0, i>> : i \in 1..Len(objects)}
      \cup UNION {{<<g, i>> : i \in 1..Len(heap[g].children)} : g \in DocTree}

At(p) == IF p[1] = 0 THEN objects[p[2]] ELSE heap[p[1]].children[p[2]]

\* C16: after any addObject, undo, redo and Group.add calls, with any shape
\* as argument, no shape object is at more than one position of the
\* document's shape tree.
C16_ExclusiveOwnership ==
    \A p \in Positions : \A q \in Positions : p # q => At(p) # At(q)

====
